---- MODULE Spec2Model ----
(***************************************************************************)
(* Model of the playwriting RAG helper: chromadb_save.py (formatter,       *)
(* metadata projector, batched ingestion), rag_chroma_query.py (step-gated *)
(* query and result shaping) and query_cli.py (interactive loop, content   *)
(* extraction).                                                            *)
(*                                                                         *)
(* Text is a sequence of one-character strings.  A JSON / Python value is  *)
(* a record [kind, v]: kind is "absent" (key not in the dict), "null",     *)
(* "str" (v the characters), "num" (v the decimal digits), "list" (v the   *)
(* elements) or "obj" (v = <<name, url>>, the source descriptor).          *)
(***************************************************************************)
EXTENDS Integers, Sequences, FiniteSets, TLC

VARIABLES pc, card, document, content, metadata, raw, hits, err,
          collection, ids, docs, metas, read, calls, qargs,
          query_in, step_raw, step, k_str, k, printed

vars == <<pc, card, document, content, metadata, raw, hits, err,
          collection, ids, docs, metas, read, calls, qargs,
          query_in, step_raw, step, k_str, k, printed>>

fmtVars == <<card, document, content, metadata>>
storeVars == <<collection, ids, docs, metas, read, calls>>
queryVars == <<hits, err, qargs>>
cliVars == <<query_in, step_raw, step, k_str, k, printed>>

----------------------------------------------------------------------------
(* Values *)

Absent == [kind |-> "absent", v |-> <<>>]
Null == [kind |-> "null", v |-> <<>>]
Str(s) == [kind |-> "str", v |-> s]
Num(d) == [kind |-> "num", v |-> d]
List(l) == [kind |-> "list", v |-> l]
Obj(name, url) == [kind |-> "obj", v |-> <<name, url>>]

\* Python truthiness: None, "", [], {} and 0 are false.
Truthy(x) ==
    CASE x.kind \in {"absent", "null"} -> FALSE
      [] x.kind \in {"str", "list"} -> x.v # <<>>
      [] x.kind = "num" -> x.v # <<"0">>
      [] x.kind = "obj" -> x.v[1].kind # "absent" \/ x.v[2].kind # "absent"

\* dict.get(key): None for a missing key.
Get(d, key) == IF d[key].kind = "absent" THEN Null ELSE d[key]

\* dict.get(key, default): the default only for a missing key.
GetDefault(d, key, default) == IF d[key].kind = "absent" THEN default ELSE d[key]

\* x or default
OrElse(x, default) == IF Truthy(x) THEN x ELSE default

\* The text an f-string field or str() gives for a string or a number.
Format(x) == x.v

----------------------------------------------------------------------------
(* Text *)

Whitespace == {" ", "\n", "\r", "\t"}

WordChars ==
    {"a", "b", "c", "d", "e", "f", "g", "h", "i", "j", "k", "l", "m", "n",
     "o", "p", "q", "r", "s", "t", "u", "v", "w", "x", "y", "z",
     "A", "B", "C", "D", "E", "F", "G", "H", "I", "J", "K", "L", "M", "N",
     "O", "P", "Q", "R", "S", "T", "U", "V", "W", "X", "Y", "Z",
     "0", "1", "2", "3", "4", "5", "6", "7", "8", "9", "_"}

\* The indices of s that hold a non-whitespace character.
Solid(s) == {i \in 1..Len(s) : s[i] \notin Whitespace}

lstrip(s) ==
    IF Solid(s) = {} THEN <<>>
    ELSE SubSeq(s, CHOOSE i \in Solid(s) : \A j \in Solid(s) : i <= j, Len(s))

rstrip(s) ==
    IF Solid(s) = {} THEN <<>>
    ELSE SubSeq(s, 1, CHOOSE i \in Solid(s) : \A j \in Solid(s) : i >= j)

\* str.strip()
strip(s) == rstrip(lstrip(s))

\* sep.join(parts)
RECURSIVE join(_, _)
join(sep, parts) ==
    IF parts = <<>> THEN <<>>
    ELSE IF Len(parts) = 1 THEN parts[1]
    ELSE parts[1] \o sep \o join(sep, Tail(parts))

\* Whether lit occurs in s at index i.
StartsWithAt(s, i, lit) ==
    /\ i >= 1
    /\ i + Len(lit) - 1 <= Len(s)
    /\ SubSeq(s, i, i + Len(lit) - 1) = lit

\* str.replace(old, new): every occurrence, left to right.
RECURSIVE replace(_, _, _)
replace(s, old, new) ==
    LET found == {i \in 1..Len(s) : StartsWithAt(s, i, old)}
    IN  IF found = {} THEN s
        ELSE LET i == CHOOSE x \in found : \A y \in found : x <= y
             IN  SubSeq(s, 1, i - 1) \o new
                     \o replace(SubSeq(s, i + Len(old), Len(s)), old, new)

\* str.replace(old, new, 1): the first occurrence only.
replace_first(s, old, new) ==
    LET found == {i \in 1..Len(s) : StartsWithAt(s, i, old)}
    IN  IF found = {} THEN s
        ELSE LET i == CHOOSE x \in found : \A y \in found : x <= y
             IN  SubSeq(s, 1, i - 1) \o new \o SubSeq(s, i + Len(old), Len(s))

----------------------------------------------------------------------------
(* chromadb_save.py: build_document *)

PASSAGE_PREFIX == <<"p", "a", "s", "s", "a", "g", "e", ":", " ">>
TitleMarker == <<"T", "i", "t", "l", "e", ":", " ">>
ContentMarker == <<"C", "o", "n", "t", "e", "n", "t", ":", " ">>
ItemsHeader == <<"C", "h", "e", "c", "k", "l", "i", "s", "t", " ", "I", "t", "e", "m", "s", ":">>
SymptomsHeader == <<"S", "y", "m", "p", "t", "o", "m", "s", ":">>
RootCauseMarker == <<"R", "o", "o", "t", " ", "c", "a", "u", "s", "e", ":", " ">>
FixHeader == <<"F", "i", "x", ":">>

\* [f"- {x}" for x in xs]
Bullets(xs) == [i \in 1..Len(xs) |-> <<"-", " ">> \o Format(xs[i])]

\* if card.get(key): parts.append(f"<marker>{card[key]}")
ScalarSection(c, key, marker) ==
    IF Truthy(Get(c, key)) THEN <<marker \o Format(c[key])>> ELSE <<>>

\* ListSection without the "if xs:" guard: the header is written for an empty list.
ListSectionUnguarded(c, key, header) ==
    LET xs == OrElse(Get(c, key), List(<<>>))
    IN  <<header>> \o Bullets(xs.v)

\* xs = card.get(key) or []; if xs: header line, then one bullet per item
ListSection(c, key, header) ==
    LET xs == OrElse(Get(c, key), List(<<>>))
    IN  IF Truthy(xs) THEN <<header>> \o Bullets(xs.v) ELSE <<>>

\* The lines of the document, in the fixed field order.
DocumentParts(c) ==
    ScalarSection(c, "title", TitleMarker)
      \o ScalarSection(c, "content", ContentMarker)
      \o ListSection(c, "items", ItemsHeader)
      \o ListSection(c, "symptoms", SymptomsHeader)
      \o ScalarSection(c, "root_cause", RootCauseMarker)
      \o ListSection(c, "fix", FixHeader)

build_document(c) == PASSAGE_PREFIX \o strip(join(<<"\n">>, DocumentParts(c)))

----------------------------------------------------------------------------
(* chromadb_save.py: build_metadata *)

EmptyStr == Str(<<>>)

\* [t for t in tags if isinstance(t, str)]
RECURSIVE StringsOf(_)
StringsOf(xs) ==
    IF xs = <<>> THEN <<>>
    ELSE (IF Head(xs).kind = "str" THEN <<Head(xs).v>> ELSE <<>>)
           \o StringsOf(Tail(xs))

\* src.get(name, ""), src being card.get("source") or {}
SourceGet(src, i) ==
    IF src.kind # "obj" \/ src.v[i].kind = "absent" THEN EmptyStr ELSE src.v[i]

build_metadata(c) ==
    LET src == OrElse(Get(c, "source"), Obj(Absent, Absent))
        tags == OrElse(Get(c, "tags"), List(<<>>))
        tags_str == join(<<",">>, StringsOf(tags.v))
    IN  [type |-> GetDefault(c, "type", EmptyStr),
         category |-> GetDefault(c, "category", EmptyStr),
         pipeline_step |-> GetDefault(c, "pipeline_step", EmptyStr),
         source_name |-> SourceGet(src, 1),
         source_url |-> SourceGet(src, 2),
         tags |-> Str(tags_str)]

----------------------------------------------------------------------------
(* query_cli.py: CONTENT_RE and extract_content *)

ContentLit == <<"C", "o", "n", "t", "e", "n", "t", ":">>
RootCauseHeader == <<"R", "o", "o", "t", " ", "c", "a", "u", "s", "e", ":">>

\* The alternation Checklist Items:|Symptoms:|Root cause:|Fix:
SectionMarkers == {ItemsHeader, SymptomsHeader, RootCauseHeader, FixHeader}

SetMin(S) == CHOOSE x \in S : \A y \in S : x <= y
SetMax(S) == CHOOSE x \in S : \A y \in S : x >= y

\* \b before index p: exactly one of the two neighbours is a word character.
WordBoundary(doc, p) ==
    (p > 1 /\ doc[p - 1] \in WordChars) # (p <= Len(doc) /\ doc[p] \in WordChars)

\* $ without re.MULTILINE: the end of the string, or just before a final newline.
EndOfString(doc, q) ==
    \/ q = Len(doc) + 1
    \/ q = Len(doc) /\ doc[q] = "\n"

\* How many whitespace characters follow from index i on (the most \s* can take).
SpaceRun(doc, i) ==
    LET runs == {n \in 0..(Len(doc) + 1 - i) :
                   \A j \in i..(i + n - 1) : doc[j] \in Whitespace}
    IN  CHOOSE n \in runs : \A m \in runs : n >= m

\* The closing group (?:\n(?:markers|$)) matches at index e.
Terminator(doc, e) ==
    /\ e <= Len(doc)
    /\ doc[e] = "\n"
    /\ \/ \E m \in SectionMarkers : StartsWithAt(doc, e + 1, m)
       \/ EndOfString(doc, e + 1)

\* Where .*? (re.DOTALL) may stop when the content group starts at index from.
ContentEnds(doc, from) == {e \in from..Len(doc) : Terminator(doc, e)}

\* The widths \s* may take after "Content:" at p so that the rest still matches.
Skips(doc, p) ==
    {s \in 0..SpaceRun(doc, p + Len(ContentLit)) :
        ContentEnds(doc, p + Len(ContentLit) + s) # {}}

\* CONTENT_RE.search(doc): leftmost start, \s* greedy, .*? lazy.
CONTENT_RE(doc) ==
    LET starts == {p \in 1..Len(doc) :
                     /\ WordBoundary(doc, p)
                     /\ StartsWithAt(doc, p, ContentLit)
                     /\ Skips(doc, p) # {}}
    IN  IF starts = {} THEN [matched |-> FALSE, content |-> <<>>]
        ELSE LET p == SetMin(starts)
                 from == p + Len(ContentLit) + SetMax(Skips(doc, p))
                 e == SetMin(ContentEnds(doc, from))
             IN  [matched |-> TRUE, content |-> SubSeq(doc, from, e - 1)]

extract_content(d) ==
    IF ~Truthy(d) THEN <<>>
    ELSE LET doc == replace(replace(d.v, <<"\r", "\n">>, <<"\n">>), <<"\r">>, <<"\n">>)
             m == CONTENT_RE(doc)
         IN  IF m.matched THEN strip(m.content)
             ELSE strip(replace_first(doc, PASSAGE_PREFIX, <<>>))

----------------------------------------------------------------------------
(* Idle values of the variables a specification does not use *)

NoCard ==
    [id |-> Absent, title |-> Absent, content |-> Absent, items |-> Absent,
     symptoms |-> Absent, root_cause |-> Absent, fix |-> Absent,
     type |-> Absent, category |-> Absent, pipeline_step |-> Absent,
     source |-> Absent, tags |-> Absent]

NoMetadata == build_metadata(NoCard)

FmtIdle ==
    /\ card = NoCard
    /\ document = Null
    /\ content = Null
    /\ metadata = NoMetadata

ShapeIdle == raw = Null

QueryIdle ==
    /\ hits = <<>>
    /\ err = FALSE
    /\ qargs = Null

StoreIdle ==
    /\ collection = <<>>
    /\ ids = <<>>
    /\ docs = <<>>
    /\ metas = <<>>
    /\ read = <<>>
    /\ calls = <<>>

CliIdle ==
    /\ query_in = <<>>
    /\ step_raw = <<>>
    /\ step = <<>>
    /\ k_str = <<>>
    /\ k = 0
    /\ printed = <<>>

----------------------------------------------------------------------------
(* SpecFormat: the formatter, the projector and the content extraction    *)
(* applied to one card.                                                   *)

MaxItems == 2

\* Sequences over S of length at most n.
SeqsUpTo(S, n) == UNION {[1..m -> S] : m \in 0..n}

TitleValues == {Absent, Null, Str(<<>>), Str(<<"T">>)}
ContentValues ==
    {Absent, Str(<<>>), Str(<<"B", "o", "d", "y">>), Str(<<" ", "B", "o", "d", "y", " ">>),
     Str(<<"a", "\n", "b">>)}
ItemValues ==
    {Absent} \cup {List(l) : l \in SeqsUpTo({Str(<<"a">>), Str(<<"b", " ">>)}, MaxItems)}
SymptomValues == {Absent, List(<<Str(<<"s">>)>>)}
RootCauseValues == {Absent, Str(<<>>), Str(<<"r">>), Str(<<"r", " ">>)}
FixValues == {Absent, Null, List(<<>>), List(<<Str(<<"d", "o", " ", "X">>)>>)}

Step1 == <<"S", "t", "e", "p", "1", "_", "P", "r", "e", "m", "i", "s", "e">>

TypeValues == {Absent, Null, Str(<<"t">>)}
CategoryValues == {Absent, Str(<<"c">>)}
StepValues == {Absent, Null, Str(Step1)}
SourceValues ==
    {Absent, Null, Obj(Absent, Absent), Obj(Str(<<"n">>), Absent),
     Obj(Absent, Str(<<"u">>)), Obj(Null, Str(<<"u">>))}
TagValues ==
    {Absent, Null, List(<<>>), List(<<Str(<<"x">>), Num(<<"7">>), Str(<<"y">>)>>),
     List(<<Null, Str(<<"x">>)>>)}

\* Cards that vary the document fields, and cards that vary the metadata fields.
DocCards ==
    {[NoCard EXCEPT !.title = t, !.content = c, !.items = i, !.symptoms = s,
                    !.root_cause = r, !.fix = f] :
        t \in TitleValues, c \in ContentValues, i \in ItemValues,
        s \in SymptomValues, r \in RootCauseValues, f \in FixValues}

MetaCards ==
    {[NoCard EXCEPT !.type = t, !.category = c, !.pipeline_step = p,
                    !.source = s, !.tags = g] :
        t \in TypeValues, c \in CategoryValues, p \in StepValues,
        s \in SourceValues, g \in TagValues}

InitFormat ==
    /\ pc = "card"
    /\ card \in DocCards \cup MetaCards
    /\ document = Null
    /\ content = Null
    /\ metadata = NoMetadata
    /\ ShapeIdle /\ QueryIdle /\ StoreIdle /\ CliIdle

\* docs.append(build_document(card))
BuildDocument ==
    /\ pc = "card"
    /\ document' = Str(build_document(card))
    /\ pc' = "document"
    /\ UNCHANGED <<card, content, metadata, raw, queryVars, storeVars, cliVars>>

\* metas.append(build_metadata(card))
BuildMetadata ==
    /\ pc = "document"
    /\ metadata' = build_metadata(card)
    /\ pc' = "metadata"
    /\ UNCHANGED <<card, document, content, raw, queryVars, storeVars, cliVars>>

\* content = extract_content(h.document)
ExtractContent ==
    /\ pc = "metadata"
    /\ content' = Str(extract_content(document))
    /\ pc' = "content"
    /\ UNCHANGED <<card, document, metadata, raw, queryVars, storeVars, cliVars>>

NextFormat == BuildDocument \/ BuildMetadata \/ ExtractContent

SpecFormat == InitFormat /\ [][NextFormat]_vars

----------------------------------------------------------------------------
(* Claims about the formatter, the projector and the content extraction   *)

\* A field that is present with a non-empty string or a non-empty list.
NonEmptyField(x) == x.kind \in {"str", "list"} /\ x.v # <<>>

\* C4 (as stated): for every card with a non-empty content field, whatever
\* other fields are present, extract_content(build_document(card)) is the
\* card's content with surrounding whitespace stripped, also when Content is
\* the last section of the document.
C4_RoundTrip ==
    (pc = "content" /\ NonEmptyField(card.content))
        => content = Str(strip(card.content.v))

\* The section of a scalar field as C8 describes it: one line, marker then value.
ClaimScalarLines(x, marker) ==
    IF NonEmptyField(x) THEN <<marker \o x.v>> ELSE <<>>

\* The section of a list field as C8 describes it: header, then "- item" lines.
ClaimListLines(x, header) ==
    IF NonEmptyField(x)
    THEN <<header>> \o [i \in 1..Len(x.v) |-> <<"-", " ">> \o x.v[i].v]
    ELSE <<>>

\* The sections of C8 in the fixed order, joined by newlines.
ClaimJoined(c) ==
    join(<<"\n">>,
         ClaimScalarLines(c.title, TitleMarker)
           \o ClaimScalarLines(c.content, ContentMarker)
           \o ClaimListLines(c.items, ItemsHeader)
           \o ClaimListLines(c.symptoms, SymptomsHeader)
           \o ClaimScalarLines(c.root_cause, RootCauseMarker)
           \o ClaimListLines(c.fix, FixHeader))

\* C8 (as stated): the document is the passage prefix followed by the
\* sections of the non-empty fields in the fixed order, joined by newlines;
\* empty fields give no line; the document depends on the field values only.
C8_DocumentIsPrefixAndSections ==
    pc # "card" => document = Str(PASSAGE_PREFIX \o ClaimJoined(card))

\* C8 (amended): the document is the passage prefix followed by the sections
\* of the non-empty fields in the fixed order, joined by newlines, with the
\* whitespace at the end of the joined text stripped; empty fields give no
\* line; the document depends on the field values only.
C8_DocumentIsPrefixAndStrippedSections ==
    pc # "card" => document = Str(PASSAGE_PREFIX \o rstrip(ClaimJoined(card)))

\* C8 witness: a formatted card with two checklist items, an empty fix list
\* and a last section that ends in whitespace.
C8_Witness ==
    /\ pc = "document"
    /\ card.title = Absent
    /\ NonEmptyField(card.content)
    /\ NonEmptyField(card.items) /\ Len(card.items.v) = 2
    /\ card.root_cause = Str(<<"r", " ">>)
    /\ card.fix = List(<<>>)

\* A card value that counts as missing for C9.
Missing(x) == x.kind \in {"absent", "null"}

\* C9 (as stated): whichever optional fields are absent or null, the metadata
\* has exactly the six keys, every missing value is the empty string, and
\* tags is the comma-join of the string-typed tag entries in order.
C9_MetadataComplete ==
    pc \in {"metadata", "content"} =>
        /\ DOMAIN metadata =
             {"type", "category", "pipeline_step", "source_name", "source_url", "tags"}
        /\ \A f \in {"type", "category", "pipeline_step"} :
               Missing(card[f]) => metadata[f] = EmptyStr
        /\ (Missing(card.source) \/ Missing(card.source.v[1]))
               => metadata.source_name = EmptyStr
        /\ (Missing(card.source) \/ Missing(card.source.v[2]))
               => metadata.source_url = EmptyStr
        /\ metadata.tags =
               Str(join(<<",">>,
                        IF Missing(card.tags) THEN <<>>
                        ELSE [i \in 1..Len(SelectSeq(card.tags.v, LAMBDA t : t.kind = "str"))
                                |-> SelectSeq(card.tags.v, LAMBDA t : t.kind = "str")[i].v]))

----------------------------------------------------------------------------
(* The embedding model and the Chroma collection, as the code uses them   *)

QUERY_PREFIX == <<"q", "u", "e", "r", "y", ":", " ">>

Dict(f) == [kind |-> "dict", v |-> f]
EmptyDict == [key \in {} |-> Null]
NaN == [kind |-> "nan", v |-> <<>>]

\* Truthiness of an Optional[dict] or Optional[str] argument.
ArgTruthy(x) ==
    IF x.kind = "dict" THEN DOMAIN x.v # {} ELSE Truthy(x)

Digit == <<"0", "1", "2", "3", "4", "5", "6", "7", "8", "9">>

\* The decimal text of a natural number.
RECURSIVE ToDigits(_)
ToDigits(n) ==
    IF n < 10 THEN <<Digit[n + 1]>> ELSE ToDigits(n \div 10) \o <<Digit[(n % 10) + 1]>>

\* model.encode(text, normalize_embeddings=True): a deterministic function of
\* the text, here its length standing for the vector.
Embedding(text) == Len(text)

\* e5_embed(texts)
e5_embed(texts) == [i \in 1..Len(texts) |-> Embedding(texts[i].v)]

\* _e5_query_prefix and embed_query
embed_query(q) == Embedding(QUERY_PREFIX \o strip(q))

\* The cosine distance of the collection ("hnsw:space": "cosine").
Distance(a, b) == IF a >= b THEN a - b ELSE b - a

HasId(coll, id) == \E i \in 1..Len(coll) : coll[i].id = id

Distinct(xs) == \A i, j \in 1..Len(xs) : i # j => xs[i] # xs[j]

\* collection.add: rejects an empty batch, arrays of unequal length and ids
\* repeated in the batch; an id already stored is left as it is stored.
add(coll, ids_, docs_, metas_, embs_) ==
    IF \/ ids_ = <<>>
       \/ Len(docs_) # Len(ids_) \/ Len(metas_) # Len(ids_) \/ Len(embs_) # Len(ids_)
       \/ ~Distinct(ids_)
    THEN [ok |-> FALSE, collection |-> coll]
    ELSE LET entries == [i \in 1..Len(ids_) |->
                           [id |-> ids_[i], document |-> docs_[i],
                            metadata |-> metas_[i], embedding |-> embs_[i]]]
         IN  [ok |-> TRUE,
              collection |-> coll \o SelectSeq(entries, LAMBDA e : ~HasId(coll, e.id))]

\* An entry satisfies an equality filter: every key of it is a metadata key
\* with that value.
Matches(entry, where) ==
    \/ where.kind # "dict"
    \/ \A key \in DOMAIN where.v :
          key \in DOMAIN entry.metadata /\ entry.metadata[key] = where.v[key]

\* Stable insertion by ascending distance.
RECURSIVE InsertByDistance(_, _, _)
InsertByDistance(e, sorted, q_emb) ==
    IF sorted = <<>> THEN <<e>>
    ELSE IF Distance(q_emb, e.embedding) < Distance(q_emb, Head(sorted).embedding)
         THEN <<e>> \o sorted
         ELSE <<Head(sorted)>> \o InsertByDistance(e, Tail(sorted), q_emb)

RECURSIVE SortByDistance(_, _)
SortByDistance(entries, q_emb) ==
    IF entries = <<>> THEN <<>>
    ELSE InsertByDistance(entries[Len(entries)],
                          SortByDistance(SubSeq(entries, 1, Len(entries) - 1), q_emb),
                          q_emb)

\* A column of the raw result: the values when included, None when not.
Included(include, name, values) ==
    IF name \in include THEN List(<<List(values)>>) ELSE Null

\* collection.query(query_embeddings=[q_emb], n_results=k, where=where, include=include):
\* rejects n_results <= 0; returns the nearest min(k, matching) entries.
collection_query(coll, q_emb, n_results, where, include) ==
    IF n_results <= 0 THEN [ok |-> FALSE, res |-> Null]
    ELSE LET matching == SortByDistance(SelectSeq(coll, LAMBDA e : Matches(e, where)), q_emb)
             n == IF Len(matching) < n_results THEN Len(matching) ELSE n_results
             top == SubSeq(matching, 1, n)
         IN  [ok |-> TRUE,
              res |-> [ids |-> List(<<List([i \in 1..n |-> top[i].id])>>),
                       distances |-> Included(include, "distances",
                           [i \in 1..n |-> Num(ToDigits(Distance(q_emb, top[i].embedding)))]),
                       documents |-> Included(include, "documents",
                           [i \in 1..n |-> top[i].document]),
                       metadatas |-> Included(include, "metadatas",
                           [i \in 1..n |-> top[i].metadata])]]

----------------------------------------------------------------------------
(* rag_chroma_query.py: RagChromaQuery.query *)

DefaultInclude == {"documents", "metadatas", "distances"}

\* x[0]: raises when x is None or an empty list.
First(x) ==
    IF x.kind = "list" /\ x.v # <<>>
    THEN [ok |-> TRUE, v |-> x.v[1].v]
    ELSE [ok |-> FALSE, v |-> <<>>]

\* res.get(key, [[]])[0]
GetFirst(res, key) ==
    IF res[key].kind = "absent" THEN [ok |-> TRUE, v |-> <<>>] ELSE First(res[key])

\* res.get(key, [[]])[0] if key in res else [fill] * len(ids)
Column(res, key, fill, n) ==
    IF res[key].kind = "absent"
    THEN [ok |-> TRUE, v |-> [i \in 1..n |-> fill]]
    ELSE First(res[key])

\* float(dists[i]) if dists[i] is not None else float("nan")
HitDistance(d) == IF d # Null THEN d ELSE NaN

\* Lines 125-140: the raw result made into RagHit records; ok is FALSE when
\* an exception is raised on the way.
shape(res) ==
    LET ids_ == GetFirst(res, "ids")
        n == Len(ids_.v)
        dists == Column(res, "distances", Null, n)
        docs_ == Column(res, "documents", Null, n)
        metas_ == Column(res, "metadatas", EmptyDict, n)
    IN  IF \/ ~ids_.ok \/ ~dists.ok \/ ~docs_.ok \/ ~metas_.ok
           \/ Len(dists.v) < n
           \/ (docs_.v # <<>> /\ Len(docs_.v) < n)
           \/ (metas_.v # <<>> /\ Len(metas_.v) < n)
        THEN [ok |-> FALSE, hits |-> <<>>]
        ELSE [ok |-> TRUE,
              hits |-> [i \in 1..n |->
                          [id |-> ids_.v[i],
                           distance |-> HitDistance(dists.v[i]),
                           document |-> IF docs_.v # <<>> THEN docs_.v[i] ELSE Null,
                           metadata |-> IF metas_.v # <<>> THEN metas_.v[i] ELSE EmptyDict]]]

\* build_where with the step filter left out: only where_extra is applied.
build_where_ungated(step_, where_extra) ==
    IF ArgTruthy(where_extra) THEN Dict(where_extra.v) ELSE Null

\* {"pipeline_step": step, **where_extra}: a key of where_extra wins.
FlattenWhere(step_, where_extra) ==
    Dict([key \in {"pipeline_step"} \cup DOMAIN where_extra.v |->
            IF key \in DOMAIN where_extra.v THEN where_extra.v[key] ELSE step_])

\* Lines 109-116: the filter built from step and where_extra.
build_where(step_, where_extra) ==
    IF ArgTruthy(step_) /\ ArgTruthy(where_extra) THEN FlattenWhere(step_, where_extra)
    ELSE IF ArgTruthy(step_) THEN Dict([key \in {"pipeline_step"} |-> step_])
    ELSE IF ArgTruthy(where_extra) THEN Dict(where_extra.v)
    ELSE Null

\* RagChromaQuery.query
query(coll, q, step_, k_, where_extra, include) ==
    LET q_emb == embed_query(q)
        where == build_where(step_, where_extra)
        res == collection_query(coll, q_emb, k_, where, include)
    IN  IF res.ok THEN shape(res.res) ELSE [ok |-> FALSE, hits |-> <<>>]

----------------------------------------------------------------------------
(* SpecShape: the result shaping of query applied to one raw store result *)

MaxHits == 2

IdC1 == Str(<<"c", "1">>)
IdC2 == Str(<<"c", "2">>)

\* A column of a raw result with n ids: a full list, no such key, or None.
RawColumns(full) == {List(<<List(full)>>), Absent, Null}

RawResults ==
    UNION {
      {[ids |-> List(<<List(i)>>), distances |-> d, documents |-> x, metadatas |-> m] :
          d \in RawColumns([j \in 1..Len(i) |-> Num(ToDigits(j))]),
          x \in RawColumns([j \in 1..Len(i) |-> Str(PASSAGE_PREFIX \o Format(i[j]))]),
          m \in RawColumns([j \in 1..Len(i) |-> NoMetadata])} :
      i \in SeqsUpTo({IdC1, IdC2}, MaxHits)}

InitShape ==
    /\ pc = "raw"
    /\ raw \in RawResults
    /\ FmtIdle /\ QueryIdle /\ StoreIdle /\ CliIdle

\* hits = the RagHit list built from res (lines 125-140)
ShapeResult ==
    /\ pc = "raw"
    /\ LET r == shape(raw)
       IN  /\ hits' = r.hits
           /\ err' = ~r.ok
    /\ pc' = "shaped"
    /\ UNCHANGED <<fmtVars, raw, qargs, storeVars, cliVars>>

NextShape == ShapeResult

SpecShape == InitShape /\ [][NextShape]_vars

\* The values of a raw column, or none when the column is missing.
RawValues(col) == IF col.kind = "list" THEN col.v[1].v ELSE <<>>

\* C5 (as stated): for every raw result with an ids list, each of distances,
\* documents and metadatas being a full list, an absent key or a key with no
\* value, shaping does not fail and gives one hit per id in the store's
\* order, with NaN, None and {} where the field is missing.
C5_ShapeNeverFails ==
    pc = "shaped" =>
        /\ ~err
        /\ Len(hits) = Len(RawValues(raw.ids))
        /\ \A i \in 1..Len(hits) :
              /\ hits[i].id = RawValues(raw.ids)[i]
              /\ hits[i].distance =
                   IF raw.distances.kind = "list" THEN RawValues(raw.distances)[i] ELSE NaN
              /\ hits[i].document =
                   IF raw.documents.kind = "list" THEN RawValues(raw.documents)[i] ELSE Null
              /\ hits[i].metadata =
                   IF raw.metadatas.kind = "list" THEN RawValues(raw.metadatas)[i]
                   ELSE EmptyDict

----------------------------------------------------------------------------
(* chromadb_save.py: the ingestion loop *)

batch == 200

\* A line of the JSONL file, as json.loads takes it.
Record(c) == [parsable |-> TRUE, card |-> c]
BadLine == [parsable |-> FALSE, card |-> NoCard]

\* The lines the current run has read, and their number over all runs.
CurrentFile == read[Len(read)]

RECURSIVE TotalLines(_)
TotalLines(files) ==
    IF files = <<>> THEN 0 ELSE Len(Head(files)) + TotalLines(Tail(files))

\* Flush without the rebinding of the buffers after the in-loop add.
FlushKeepingBuffers(ids1, docs1, metas1, in_loop) ==
    LET embs == e5_embed(docs1)
        r == add(collection, ids1, docs1, metas1, embs)
    IN  /\ calls' = Append(calls, [run |-> Len(read), ok |-> r.ok, ids |-> ids1,
                                   documents |-> docs1, metadatas |-> metas1,
                                   embeddings |-> embs])
        /\ collection' = r.collection
        /\ ids' = ids1 /\ docs' = docs1 /\ metas' = metas1
        /\ pc' = IF ~r.ok THEN "failed" ELSE IF in_loop THEN "reading" ELSE "done"

\* embs = e5_embed(docs); collection.add(...); the in-loop flush then
\* rebinds ids, docs, metas to empty lists, the flush after the loop does not.
Flush(ids1, docs1, metas1, in_loop) ==
    LET embs == e5_embed(docs1)
        r == add(collection, ids1, docs1, metas1, embs)
    IN  /\ calls' = Append(calls, [run |-> Len(read), ok |-> r.ok, ids |-> ids1,
                                   documents |-> docs1, metadatas |-> metas1,
                                   embeddings |-> embs])
        /\ collection' = r.collection
        /\ IF r.ok /\ in_loop
           THEN ids' = <<>> /\ docs' = <<>> /\ metas' = <<>>
           ELSE ids' = ids1 /\ docs' = docs1 /\ metas' = metas1
        /\ pc' = IF ~r.ok THEN "failed" ELSE IF in_loop THEN "reading" ELSE "done"

\* ReadLine with the buffered records flushed before the error leaves the loop.
ReadLineFlushingOnError(line) ==
    /\ pc = "reading"
    /\ read' = [read EXCEPT ![Len(read)] = Append(@, line)]
    /\ IF ~line.parsable \/ line.card.id.kind = "absent"
       THEN LET embs == e5_embed(docs)
                r == add(collection, ids, docs, metas, embs)
            IN  /\ pc' = "failed"
                /\ collection' = r.collection
                /\ calls' = IF ids = <<>> THEN calls
                            ELSE Append(calls, [run |-> Len(read), ok |-> r.ok,
                                                ids |-> ids, documents |-> docs,
                                                metadatas |-> metas, embeddings |-> embs])
                /\ UNCHANGED <<ids, docs, metas>>
       ELSE LET ids1 == Append(ids, line.card.id)
                docs1 == Append(docs, Str(build_document(line.card)))
                metas1 == Append(metas, build_metadata(line.card))
            IN  IF Len(ids1) >= batch
                THEN Flush(ids1, docs1, metas1, TRUE)
                ELSE /\ ids' = ids1 /\ docs' = docs1 /\ metas' = metas1
                     /\ pc' = "reading"
                     /\ UNCHANGED <<collection, calls>>
    /\ UNCHANGED <<fmtVars, raw, queryVars, cliVars>>

\* One iteration of "for line in f" (lines 65-74): parse, append to the three
\* buffers, flush when the batch is full.  An unparsable line or a card
\* without "id" raises and ends the run.
ReadLine(line) ==
    /\ pc = "reading"
    /\ read' = [read EXCEPT ![Len(read)] = Append(@, line)]
    /\ IF ~line.parsable \/ line.card.id.kind = "absent"
       THEN /\ pc' = "failed"
            /\ UNCHANGED <<collection, ids, docs, metas, calls>>
       ELSE LET ids1 == Append(ids, line.card.id)
                docs1 == Append(docs, Str(build_document(line.card)))
                metas1 == Append(metas, build_metadata(line.card))
            IN  IF Len(ids1) >= batch
                THEN Flush(ids1, docs1, metas1, TRUE)
                ELSE /\ ids' = ids1 /\ docs' = docs1 /\ metas' = metas1
                     /\ pc' = "reading"
                     /\ UNCHANGED <<collection, calls>>
    /\ UNCHANGED <<fmtVars, raw, queryVars, cliVars>>

\* The end of the file (lines 76-80): the rest of the buffers is flushed.
EndOfFile ==
    /\ pc = "reading"
    /\ IF ids # <<>>
       THEN Flush(ids, docs, metas, FALSE)
       ELSE pc' = "done" /\ UNCHANGED <<collection, ids, docs, metas, calls>>
    /\ UNCHANGED <<read, fmtVars, raw, queryVars, cliVars>>

\* The script is run again on the same database: module-level state is new,
\* the persistent collection is the one get_or_create_collection opens.
StartRun ==
    /\ pc \in {"done", "failed"}
    /\ pc' = "reading"
    /\ read' = Append(read, <<>>)
    /\ ids' = <<>> /\ docs' = <<>> /\ metas' = <<>>
    /\ hits' = <<>> /\ err' = FALSE /\ qargs' = Null
    /\ UNCHANGED <<collection, calls, fmtVars, raw, cliVars>>

\* hits = rq.query(query=q, step=step, k=k, where_extra=where_extra), between
\* two runs.  A query overwrites all it writes and reads nothing of an earlier
\* query, so one query per gap reaches every state repeated queries reach.
Query(q, step_, k_, where_extra) ==
    /\ pc \in {"done", "failed"}
    /\ qargs = Null
    /\ LET r == query(collection, q, step_, k_, where_extra, DefaultInclude)
       IN  /\ hits' = r.hits
           /\ err' = ~r.ok
    /\ qargs' = [query |-> q, step |-> step_, k |-> k_, where_extra |-> where_extra]
    /\ UNCHANGED <<pc, storeVars, fmtVars, raw, cliVars>>

----------------------------------------------------------------------------
(* SpecStore: ingestion runs over short files, and queries between runs   *)

MaxRuns == 2
MaxLines == 3

Step2 == <<"S", "t", "e", "p", "2", "_", "P", "r", "e", "m", "i", "s", "e", "_", "C", "o", "n", "s", "i", "s", "t", "e", "n", "c", "y">>
Body == <<"B", "o", "d", "y">>
Craft == Str(<<"c", "r", "a", "f", "t">>)

CardC1 ==
    [NoCard EXCEPT !.id = IdC1, !.title = Str(<<"T">>), !.content = Str(Body),
                   !.pipeline_step = Str(Step1)]
CardC1Again ==
    [NoCard EXCEPT !.id = IdC1, !.title = Str(<<"T">>), !.content = Str(<<"N", "e", "w">>),
                   !.pipeline_step = Str(Step2)]
CardC2 ==
    [NoCard EXCEPT !.id = IdC2, !.content = Str(Body), !.category = Craft,
                   !.pipeline_step = Str(Step1)]
CardNoId == [NoCard EXCEPT !.content = Str(Body)]

StoreLines == {Record(CardC1), Record(CardC1Again), Record(CardC2), Record(CardNoId), BadLine}

StepArgs == {Null, Str(<<>>), Str(Step1), Str(Step2)}
KArgs == {0, 1, 2}
WhereExtraArgs ==
    {Null, Dict(EmptyDict), Dict([category |-> Craft]), Dict([pipeline_step |-> Str(Step2)])}

InitStore ==
    /\ pc = "reading"
    /\ collection = <<>>
    /\ ids = <<>> /\ docs = <<>> /\ metas = <<>>
    /\ read = <<<<>>>>
    /\ calls = <<>>
    /\ FmtIdle /\ ShapeIdle /\ QueryIdle /\ CliIdle

NextStore ==
    \/ \E line \in StoreLines : TotalLines(read) < MaxLines /\ ReadLine(line)
    \/ EndOfFile
    \/ (Len(read) < MaxRuns /\ StartRun)
    \/ \E s \in StepArgs, n \in KArgs, w \in WhereExtraArgs : Query(Body, s, n, w)

SpecStore == InitStore /\ [][NextStore]_vars

----------------------------------------------------------------------------
(* SpecBatch: one ingestion run over a long file of parsable records      *)

MaxBatches == 2

\* The record on line n of the long file.
BatchCard(n) ==
    [NoCard EXCEPT !.id = Str(ToDigits(n)), !.content = Str(<<"B">> \o ToDigits(n)),
                   !.pipeline_step = Str(Step1)]

NextBatch ==
    \/ (Len(CurrentFile) <= MaxBatches * batch
          /\ ReadLine(Record(BatchCard(Len(CurrentFile) + 1))))
    \/ EndOfFile

SpecBatch == InitStore /\ [][NextBatch]_vars

----------------------------------------------------------------------------
(* SpecAbort: one ingestion run over a long file whose records have       *)
(* distinct ids, where any line may be unparsable or a record without id  *)

\* The record on line n, without its "id" key.
BatchCardNoId(n) == [BatchCard(n) EXCEPT !.id = Absent]

NextAbort ==
    \/ (Len(CurrentFile) <= MaxBatches * batch
          /\ ReadLine(Record(BatchCard(Len(CurrentFile) + 1))))
    \/ (Len(CurrentFile) <= MaxBatches * batch /\ ReadLine(BadLine))
    \/ (Len(CurrentFile) <= MaxBatches * batch
          /\ ReadLine(Record(BatchCardNoId(Len(CurrentFile) + 1))))
    \/ EndOfFile

SpecAbort == InitStore /\ [][NextAbort]_vars

----------------------------------------------------------------------------
(* Claims about ingestion runs and step-gated queries *)

\* The insertion calls that returned, and the ids they carried.
ReturnedCalls == {j \in 1..Len(calls) : calls[j].ok}
CallHasId(j, id) == \E i \in 1..Len(calls[j].ids) : calls[j].ids[i] = id

\* C1 (as stated): after any sequence of ingestion runs the store holds
\* exactly one entry per distinct identifier, and the entry carries the
\* document, metadata and vector of the latest run that ingested the id.
C1_ReingestReplaces ==
    pc = "done" =>
        \A j \in ReturnedCalls : \A i \in 1..Len(calls[j].ids) :
            LET id == calls[j].ids[i]
                last == SetMax({m \in ReturnedCalls : CallHasId(m, id)})
                p == CHOOSE q \in 1..Len(calls[last].ids) : calls[last].ids[q] = id
                stored == {n \in 1..Len(collection) : collection[n].id = id}
            IN  /\ Cardinality(stored) = 1
                /\ \A n \in stored :
                      /\ collection[n].document = calls[last].documents[p]
                      /\ collection[n].metadata = calls[last].metadatas[p]
                      /\ collection[n].embedding = calls[last].embeddings[p]

\* An entry qualifies for a query: its stage is the step, and it satisfies
\* every equality of where_extra.
Qualifies(e, step_, where_extra) ==
    /\ e.metadata.pipeline_step = step_
    /\ Matches(e, where_extra)

\* C2 (as stated): for a query with a non-empty step, any k and any
\* where_extra, every hit's stored pipeline_step equals step; and when fewer
\* than k entries qualify, exactly that many hits come back and no error.
C2_StepGate ==
    (qargs # Null /\ ArgTruthy(qargs.step)) =>
        /\ \A i \in 1..Len(hits) : hits[i].metadata.pipeline_step = qargs.step
        /\ LET n == Cardinality({i \in 1..Len(collection) :
                        Qualifies(collection[i], qargs.step, qargs.where_extra)})
           IN  n < qargs.k => (~err /\ Len(hits) = n)

\* C3: after one run that ingests a single card into the empty collection, a
\* query restricted to a stage (k >= 1, no other filter) returns exactly one
\* hit, with the card's id, when the card's own stage tag is that stage, and
\* no hit otherwise.
C3_StageGating ==
    (/\ pc = "done" /\ Len(read) = 1 /\ Len(read[1]) = 1
     /\ qargs # Null /\ ArgTruthy(qargs.step) /\ ~ArgTruthy(qargs.where_extra)
     /\ qargs.k >= 1)
    => /\ ~err
       /\ IF read[1][1].card.pipeline_step = qargs.step
          THEN Len(hits) = 1 /\ hits[1].id = read[1][1].card.id
          ELSE hits = <<>>

\* C3 witness: card c1 of stage Step1_Premise was ingested alone, and the
\* query restricted to Step1_Premise with k = 1 returned the one hit c1.
C3_Witness ==
    /\ pc = "done"
    /\ read = <<<<Record(CardC1)>>>>
    /\ qargs # Null /\ qargs.step = Str(Step1) /\ qargs.k = 1 /\ qargs.where_extra = Null
    /\ Len(hits) = 1 /\ hits[1].id = IdC1

\* How many records the insertion calls before call j carried, and all calls.
RECURSIVE FlushedBefore(_)
FlushedBefore(j) == IF j <= 1 THEN 0 ELSE FlushedBefore(j - 1) + Len(calls[j - 1].ids)
Flushed == FlushedBefore(Len(calls) + 1)

\* Every insertion call carries 1..batch entries in four arrays of equal
\* length, position i of each coming from the same input record, the calls
\* taking the records in input order without gap or overlap.
CallsCarryInput ==
    \A j \in 1..Len(calls) :
        LET c == calls[j]
        IN  /\ Len(c.ids) >= 1 /\ Len(c.ids) <= batch
            /\ Len(c.documents) = Len(c.ids)
            /\ Len(c.metadatas) = Len(c.ids)
            /\ Len(c.embeddings) = Len(c.ids)
            /\ FlushedBefore(j) + Len(c.ids) <= Len(CurrentFile)
            /\ \A i \in 1..Len(c.ids) :
                  LET rec == CurrentFile[FlushedBefore(j) + i].card
                  IN  /\ c.ids[i] = rec.id
                      /\ c.documents[i] = Str(build_document(rec))
                      /\ c.metadatas[i] = build_metadata(rec)
                      /\ c.embeddings[i] = Embedding(build_document(rec))

\* C10 (as stated): nothing lost or duplicated, calls of 1..200 aligned
\* entries, no empty call, and the buffers are empty after each flush.
C10_BatchedIngestion ==
    /\ CallsCarryInput
    /\ pc = "done" => Flushed = Len(CurrentFile)
    /\ (calls # <<>> /\ Flushed = Len(CurrentFile))
          => (ids = <<>> /\ docs = <<>> /\ metas = <<>>)

\* C10 (amended): nothing lost or duplicated, calls of 1..200 aligned
\* entries, no empty call, and the buffers are empty after each flush made
\* inside the loop (the flush after the loop leaves them as they are).
C10_BatchedIngestionInLoop ==
    /\ CallsCarryInput
    /\ pc = "done" => Flushed = Len(CurrentFile)
    /\ (pc = "reading" /\ calls # <<>> /\ Flushed = Len(CurrentFile))
          => (ids = <<>> /\ docs = <<>> /\ metas = <<>>)
    /\ pc = "reading" => Len(ids) = Len(CurrentFile) - Flushed

\* C10 witness: a file of exactly two batches has been ingested in two calls.
C10_Witness ==
    /\ pc = "done"
    /\ Len(CurrentFile) = 2 * batch
    /\ Len(calls) = 2

\* A line that makes the loop raise: unparsable, or a record without "id".
Raises(line) == ~line.parsable \/ line.card.id.kind = "absent"

\* The entry the store holds for a record, if the record is stored.
EntryOf(rec) ==
    [id |-> rec.id, document |-> Str(build_document(rec)),
     metadata |-> build_metadata(rec),
     embedding |-> Embedding(build_document(rec))]

\* The store keeps its entries in insertion order: the record of line i of a
\* run on an empty collection is stored when it is the i-th entry.
IsStoredAt(i, rec) == i <= Len(collection) /\ collection[i] = EntryOf(rec)

\* The number of lines in the full batches flushed before line n.
FullBatchLines(n) == batch * ((n - 1) \div batch)

\* The run has stopped at line n, the first line that raises: the records of
\* the full batches before n are stored, one insertion call per batch and
\* none repeated, and nothing else is in the store: neither the records
\* buffered since the last flush nor (no line after n being read) later ones.
C11_StoppedAtBadLine ==
    pc = "failed" =>
        LET n == Len(CurrentFile)
            full == FullBatchLines(n)
        IN  /\ n >= 1 /\ Raises(CurrentFile[n])
            /\ \A i \in 1..(n - 1) : ~Raises(CurrentFile[i])
            /\ \A i \in 1..full : IsStoredAt(i, CurrentFile[i].card)
            /\ \A i \in (full + 1)..(n - 1) :
                   ~HasId(collection, CurrentFile[i].card.id)
            /\ Len(collection) = full
            /\ Len(calls) = full \div batch
            /\ \A j \in 1..Len(calls) : calls[j].ok /\ Len(calls[j].ids) = batch

\* What is stored stays stored, and a stopped run does nothing more.
C11_StaysStored ==
    /\ \A m \in 1..Len(collection) :
          m <= Len(collection') /\ collection'[m] = collection[m]
    /\ pc = "failed" => UNCHANGED vars

\* C11: an ingestion stopped by a bad line is partial.  When line n is the
\* first unparsable line or the first record without an id, the run stops at
\* that line without retry; the records of the full 200-record batches
\* flushed before line n are stored and stay stored; the records buffered
\* since the last flush and every record after line n are never stored.
C11_PartialIngestion == []C11_StoppedAtBadLine /\ [][C11_StaysStored]_vars

\* C11 witness: the run has stopped at a bad line after one full batch was
\* flushed and with two more records in the buffers.
C11_Witness ==
    /\ pc = "failed"
    /\ Len(CurrentFile) = batch + 3
    /\ Raises(CurrentFile[batch + 3])
    /\ Len(collection) = batch
    /\ Len(ids) = 2

----------------------------------------------------------------------------
(* query_cli.py: parse_step and the interactive loop *)

Step3 == <<"S", "t", "e", "p", "3", "_", "A", "c", "t", "_", "S", "t", "r", "u", "c", "t", "u", "r", "e">>
Step4 == <<"S", "t", "e", "p", "4", "_", "C", "h", "a", "r", "a", "c", "t", "e", "r", "_", "A", "r", "c">>
Step5 == <<"S", "t", "e", "p", "5", "_", "C", "o", "n", "f", "l", "i", "c", "t", "_", "E", "s", "c", "a", "l", "a", "t", "i", "o", "n">>
Step6 == <<"S", "t", "e", "p", "6", "_", "D", "e", "t", "a", "i", "l", "s">>

STEP_MAP == <<Step1, Step2, Step3, Step4, Step5, Step6>>

default_k == 6

UpperCase == <<"A", "B", "C", "D", "E", "F", "G", "H", "I", "J", "K", "L", "M", "N", "O", "P", "Q", "R", "S", "T", "U", "V", "W", "X", "Y", "Z">>
LowerCase == <<"a", "b", "c", "d", "e", "f", "g", "h", "i", "j", "k", "l", "m", "n", "o", "p", "q", "r", "s", "t", "u", "v", "w", "x", "y", "z">>

\* str.lower()
lower(s) ==
    [i \in 1..Len(s) |->
        IF \E j \in 1..Len(UpperCase) : UpperCase[j] = s[i]
        THEN LowerCase[CHOOSE j \in 1..Len(UpperCase) : UpperCase[j] = s[i]]
        ELSE s[i]]

IsDigit(c) == \E d \in 1..Len(Digit) : Digit[d] = c
DigitValue(c) == (CHOOSE d \in 1..Len(Digit) : Digit[d] = c) - 1

\* The digits of an integer literal: a digit, then digits each optionally
\* preceded by one underscore.
RECURSIVE ValidDigits(_)
ValidDigits(s) ==
    /\ s # <<>>
    /\ IsDigit(s[1])
    /\ \/ Len(s) = 1
       \/ IF s[2] = "_" THEN ValidDigits(SubSeq(s, 3, Len(s))) ELSE ValidDigits(Tail(s))

RECURSIVE DigitsValue(_, _)
DigitsValue(s, acc) ==
    IF s = <<>> THEN acc
    ELSE IF s[1] = "_" THEN DigitsValue(Tail(s), acc)
    ELSE DigitsValue(Tail(s), acc * 10 + DigitValue(s[1]))

\* int(s): surrounding whitespace, an optional sign, digits; ok is FALSE for
\* ValueError.
int(s) ==
    LET t == strip(s)
        signed == t # <<>> /\ t[1] \in {"+", "-"}
        body == IF signed THEN Tail(t) ELSE t
    IN  IF ValidDigits(body)
        THEN [ok |-> TRUE,
              n |-> IF signed /\ t[1] = "-" THEN 0 - DigitsValue(body, 0)
                    ELSE DigitsValue(body, 0)]
        ELSE [ok |-> FALSE, n |-> 0]

\* parse_step without the "n not in STEP_MAP" check: an out-of-range number
\* gives the default step and no error.
parse_step_unchecked(step_input) ==
    LET t == strip(step_input)
        n == int(t)
    IN  IF t = <<>> THEN [ok |-> TRUE, step |-> STEP_MAP[1], error |-> ""]
        ELSE IF ~n.ok THEN [ok |-> FALSE, step |-> <<>>, error |-> "integer"]
        ELSE [ok |-> TRUE,
              step |-> IF n.n \in 1..Len(STEP_MAP) THEN STEP_MAP[n.n] ELSE STEP_MAP[1],
              error |-> ""]

\* parse_step: ok is FALSE for ValueError, error telling which of the two.
parse_step(step_input) ==
    LET t == strip(step_input)
        n == int(t)
    IN  IF t = <<>> THEN [ok |-> TRUE, step |-> STEP_MAP[1], error |-> ""]
        ELSE IF ~n.ok THEN [ok |-> FALSE, step |-> <<>>, error |-> "integer"]
        ELSE IF n.n \notin 1..Len(STEP_MAP)
             THEN [ok |-> FALSE, step |-> <<>>, error |-> "range"]
        ELSE [ok |-> TRUE, step |-> STEP_MAP[n.n], error |-> ""]

\* Lines 121-125: step = parse_step(step_raw), or the default with a warning.
ChooseStep(raw_) ==
    LET r == parse_step(raw_)
    IN  /\ step' = IF r.ok THEN r.step ELSE STEP_MAP[1]
        /\ printed' = IF r.ok THEN printed
                      ELSE Append(printed, "Step input error: " \o r.error)

\* query = input("Query text: ").strip(); a blank query ends the loop.
EnterQuery(text) ==
    /\ pc = "query_prompt"
    /\ query_in' = strip(text)
    /\ IF strip(text) = <<>>
       THEN pc' = "done" /\ printed' = <<"Bye.">>
       ELSE pc' = "step_prompt" /\ printed' = <<>>
    /\ UNCHANGED <<step_raw, step, k_str, k, fmtVars, raw, queryVars, storeVars>>

\* step_raw = input("Pipeline step ...").strip(); help shows the steps and
\* asks again, anything else is parsed.
EnterStep(text) ==
    /\ pc = "step_prompt"
    /\ step_raw' = strip(text)
    /\ IF lower(strip(text)) \in {<<"h", "e", "l", "p">>, <<"h">>, <<"?">>}
       THEN /\ pc' = "step_prompt_again"
            /\ printed' = Append(printed, "Pipeline steps")
            /\ UNCHANGED step
       ELSE /\ pc' = "top_k_prompt"
            /\ ChooseStep(strip(text))
    /\ UNCHANGED <<query_in, k_str, k, fmtVars, raw, queryVars, storeVars>>

\* step_raw = input("Pipeline step (1~6, default=1): ").strip(), after help.
EnterStepAgain(text) ==
    /\ pc = "step_prompt_again"
    /\ step_raw' = strip(text)
    /\ pc' = "top_k_prompt"
    /\ ChooseStep(strip(text))
    /\ UNCHANGED <<query_in, k_str, k, fmtVars, raw, queryVars, storeVars>>

\* Lines 127-158: k from the top-k input, the query, the printed results
\* (content keeps the extract_content of the last hit printed).  An exception
\* raised by rq.query is not caught and ends the process.
EnterTopK(text) ==
    /\ pc = "top_k_prompt"
    /\ k_str' = strip(text)
    /\ LET n == int(strip(text))
           k1 == IF strip(text) = <<>> THEN default_k
                 ELSE IF n.ok THEN n.n ELSE default_k
           warned == IF strip(text) # <<>> /\ ~n.ok
                     THEN Append(printed, "Top-k warning") ELSE printed
           r == query(collection, query_in, Str(step), k1, Null, DefaultInclude)
       IN  /\ k' = k1
           /\ qargs' = [query |-> query_in, step |-> Str(step), k |-> k1,
                        where_extra |-> Null]
           /\ hits' = r.hits
           /\ err' = ~r.ok
           /\ IF ~r.ok
              THEN pc' = "aborted" /\ printed' = warned
              ELSE /\ pc' = "query_prompt"
                   /\ printed' = Append(warned,
                                        IF r.hits = <<>> THEN "no results" ELSE "Results")
           /\ content' = IF r.ok /\ r.hits # <<>>
                         THEN Str(extract_content(r.hits[Len(r.hits)].document))
                         ELSE content
    /\ UNCHANGED <<query_in, step_raw, step, card, document, metadata, raw, storeVars>>

----------------------------------------------------------------------------
(* SpecCli: the interactive loop over a collection of three cards         *)

CardC3 ==
    [NoCard EXCEPT !.id = Str(<<"c", "3">>), !.content = Str(<<"N", "e", "w">>),
                   !.pipeline_step = Str(Step2)]

\* The collection RagChromaQuery opens: three cards ingested by one run.
CliCollection ==
    LET cards == <<CardC1, CardC2, CardC3>>
        docs_ == [i \in 1..Len(cards) |-> Str(build_document(cards[i]))]
    IN  add(<<>>, [i \in 1..Len(cards) |-> cards[i].id], docs_,
            [i \in 1..Len(cards) |-> build_metadata(cards[i])], e5_embed(docs_)).collection

QueryInputs == {<<>>, <<" ", " ">>, <<" ", "B", "o", "d", "y", " ">>, <<"N", "e", "w">>}
StepInputs ==
    {<<>>, <<" ">>, <<"1">>, <<" ", "3", " ">>, <<"6">>, <<"0">>, <<"7">>, <<"-", "1">>,
     <<"+", "2">>, <<"1", "2">>, <<"x">>, <<"2", "x">>, <<"1", "_", "0">>,
     <<"h", "e", "l", "p">>, <<"H">>, <<"?">>}
TopKInputs ==
    {<<>>, <<"1">>, <<" ", "3", " ">>, <<"0">>, <<"-", "2">>, <<"a", "b", "c">>,
     <<"1", ".", "5">>}

InitCli ==
    /\ pc = "query_prompt"
    /\ collection = CliCollection
    /\ ids = <<>> /\ docs = <<>> /\ metas = <<>> /\ read = <<>> /\ calls = <<>>
    /\ query_in = <<>> /\ step_raw = <<>> /\ step = STEP_MAP[1]
    /\ k_str = <<>> /\ k = default_k
    /\ printed = <<>>
    /\ FmtIdle /\ ShapeIdle /\ QueryIdle

NextCli ==
    \/ \E text \in QueryInputs : EnterQuery(text)
    \/ \E text \in StepInputs : EnterStep(text)
    \/ \E text \in StepInputs : EnterStepAgain(text)
    \/ \E text \in TopKInputs : EnterTopK(text)

SpecCli == InitCli /\ [][NextCli]_vars

----------------------------------------------------------------------------
(* Claims about the interactive loop *)

\* C6 (as stated): the k passed to RagChromaQuery.query is always a positive
\* integer: the integer typed when the top-k input is a valid bound, and 6
\* when the input is blank or invalid.
C6_TopKPositive ==
    qargs # Null =>
        /\ qargs.k >= 1
        /\ qargs.k = IF int(k_str).ok /\ int(k_str).n >= 1 THEN int(k_str).n ELSE 6

CanonicalSteps == {STEP_MAP[i] : i \in 1..Len(STEP_MAP)}

\* The three kinds of stage input of C7.
StepIsValid(raw_) == int(raw_).ok /\ int(raw_).n \in 1..6
StepFormatError(raw_) == strip(raw_) # <<>> /\ ~int(raw_).ok
StepRangeError(raw_) == int(raw_).ok /\ int(raw_).n \notin 1..6

Printed(msg) == \E i \in 1..Len(printed) : printed[i] = msg

\* After a stage input was parsed: the chosen stage is STEP_MAP[n] for an
\* integer n in 1..6 and Step1_Premise otherwise, with a warning exactly in
\* the two error cases; and a stage passed to a query is a canonical tag.
C7_StepChosen ==
    /\ pc = "top_k_prompt" =>
          /\ step = IF StepIsValid(step_raw) THEN STEP_MAP[int(step_raw).n] ELSE STEP_MAP[1]
          /\ step \in CanonicalSteps
          /\ Printed("Step input error: integer") <=> StepFormatError(step_raw)
          /\ Printed("Step input error: range") <=> StepRangeError(step_raw)
    /\ qargs # Null => qargs.step.kind = "str" /\ qargs.step.v \in CanonicalSteps

\* A stage input (other than help at the first prompt) leads to the top-k
\* prompt, the top-k input leads to the query with the chosen stage, and the
\* loop is left only from the query prompt, on a blank query text.
C7_SessionGoesOn ==
    /\ (pc = "step_prompt" /\ pc' # "step_prompt_again") => pc' = "top_k_prompt"
    /\ pc = "step_prompt_again" => pc' = "top_k_prompt"
    /\ pc = "top_k_prompt" =>
          /\ qargs' # Null /\ qargs'.step = Str(step) /\ qargs'.query = query_in
          /\ pc' \in {"query_prompt", "aborted"}
    /\ (pc' = "done" /\ pc # "done") => (pc = "query_prompt" /\ query_in' = <<>>)
    /\ (pc = "query_prompt" /\ query_in' # <<>>) => pc' = "step_prompt"

====
